---- MODULE Spec2Model ----
(***************************************************************************)
(* A model of the hydrakv Python client (src/src/hydrakv/client.py): the   *)
(* Hydrakv class, its constructor with the connection probe, its           *)
(* credential dictionary, and every public method, over both transports    *)
(* (HTTP through httpx, RPC through the generated gRPC stub).              *)
(*                                                                         *)
(* The HydraKV server is outside the repository.  It is modelled as an     *)
(* environment that, for every request, chooses one of the behaviours a    *)
(* server or network can show (no response, performed, absent, denied).    *)
(***************************************************************************)
EXTENDS Integers, Sequences, FiniteSets, TLC

VARIABLES
    inst,     \* client id -> the Hydrakv object the caller holds, or NoInstance
    ctor,     \* client id -> how the constructor call for that id ended
    heap,     \* dict object id -> contents of that Python dict
    calls,    \* client id -> the method call that has just completed, or NoCall
    server,   \* what the server holds: keys, the queue, tokens issued
    tasks,    \* task id -> the coroutine that task runs and where it stands
    loop      \* the event loop's thread: Free, or the task blocking it

vars == <<inst, ctor, heap, calls, server, tasks, loop>>

(***************************************************************************)
(* Bounds of the model.                                                    *)
(***************************************************************************)
NumServerTokens == 1    \* distinct tokens the server may hand out
MaxLimit == 1           \* largest queue limit a caller passes
MaxCounter == 2         \* largest number a key is incremented to
MaxQueue == 2           \* most values the queue holds
MaxIssued == 2          \* most tokens the server issues to concurrent renewals

(***************************************************************************)
(* Program constants.                                                      *)
(***************************************************************************)
DefaultPort == 9191
DefaultGrpcPort == 9292
DefaultGrpcDeadline == 3

(***************************************************************************)
(* Python values.  A value carries its type, as Python's do.               *)
(***************************************************************************)
PyNone == [kind |-> "none", val |-> 0]
PyStr(s) == [kind |-> "str", val |-> s]
PyInt(n) == [kind |-> "int", val |-> n]
PyBool(b) == [kind |-> "bool", val |-> b]
PyMsg(m) == [kind |-> "message", val |-> m]

\* An argument the caller did not pass: the parameter's default applies.
Omitted == [kind |-> "omitted", val |-> 0]

Default(arg, dflt) == IF arg = Omitted THEN dflt ELSE arg

\* Python truthiness of a value (the `if api_key` of the header expressions).
Truthy(v) ==
    CASE v.kind = "none" -> FALSE
      [] v.kind = "str" -> v.val # ""
      [] v.kind = "int" -> v.val # 0
      [] v.kind = "bool" -> v.val
      [] OTHER -> TRUE

\* Python's ==: bool is a subclass of int, every other pair of types differs.
PyNum(v) == IF v.kind = "bool" THEN (IF v.val THEN 1 ELSE 0) ELSE v.val

PyEq(a, b) ==
    IF a.kind \in {"int", "bool"} /\ b.kind \in {"int", "bool"}
    THEN PyNum(a) = PyNum(b)
    ELSE a = b

(***************************************************************************)
(* Input domains.                                                          *)
(***************************************************************************)
DBs == {"d1", "d2"}
StoreKeys == DBs \cup {""}
TokenNames == <<"s1", "s2", "s3">>
ServerTokens == {TokenNames[i] : i \in 1..NumServerTokens}
UserTokens == {"u1"}
Unset == "<unset>"      \* a key the dict does not hold

Hosts == {"h1"}
Clients == {1, 2}
DictIds == {"caller", "own1", "own2"}
OwnDict(c) == IF c = 1 THEN "own1" ELSE "own2"

KeyArgs == {PyStr("k1"), PyNone}
ValueArgs == {PyStr("v1"), PyNone}
ApiKeyArgs == {PyNone, PyStr("u2")}
DeltaArgs == {Omitted, PyInt(2)}
NameArgs == {PyStr("q1"), PyNone}
Values == {"v1"}

EmptyDict == [k \in StoreKeys |-> Unset]
InitialMappings == {EmptyDict, [EmptyDict EXCEPT !["d1"] = "u1"]}

\* dict.get(key, default)
DictGet(d, k, dflt) == IF d[k] = Unset THEN dflt ELSE d[k]

(***************************************************************************)
(* Request models (src/src/hydrakv/models/http_models.py).  A pydantic     *)
(* model either validates, giving the object with its fields, or raises    *)
(* ValidationError.  Field(...) is a required field of the annotated type; *)
(* Field(d) is an optional one whose default is d.                         *)
(***************************************************************************)
ValidationError == [error |-> "ValidationError"]
IsValid(m) == "error" \notin DOMAIN m

IsStr(v) == v.kind = "str"
IsInt(v) == v.kind = "int"

CreateDB(name) ==
    IF IsStr(name) THEN [name |-> name] ELSE ValidationError

SetNX(key, value, ttl, apikey) ==
    IF IsStr(key) /\ IsStr(value) /\ IsInt(ttl) /\ IsStr(apikey)
    THEN [ttl |-> ttl, key |-> key, value |-> value, apikey |-> apikey]
    ELSE ValidationError

Set(key, apikey, value, ttl) ==
    IF IsStr(key) /\ IsStr(value) /\ IsInt(ttl) /\ IsStr(apikey)
    THEN [ttl |-> ttl, key |-> key, value |-> value, apikey |-> apikey]
    ELSE ValidationError

Get(key, apikey) ==
    IF IsStr(key) /\ IsStr(apikey)
    THEN [key |-> key, apikey |-> apikey]
    ELSE ValidationError

Delete(key, apikey) ==
    IF IsStr(key) /\ IsStr(apikey)
    THEN [key |-> key, apikey |-> apikey]
    ELSE ValidationError

Incr(key, apikey, delta) ==
    IF IsStr(key) /\ IsInt(delta) /\ IsStr(apikey)
    THEN [key |-> key, delta |-> delta, apikey |-> apikey]
    ELSE ValidationError

FiFoLiFoDelete(name) ==
    IF IsStr(name) THEN [name |-> name] ELSE ValidationError

FiFoLiFoPush(name, value) ==
    IF IsStr(name) /\ IsStr(value)
    THEN [name |-> name, value |-> value]
    ELSE ValidationError

FiFoLiFoPop(name) ==
    IF IsStr(name) THEN [name |-> name] ELSE ValidationError

\* Mutant: the limit is declared Field(..., gt=0).
FiFoLiFoCreate_positive(name, limit) ==
    IF IsStr(name) /\ IsInt(limit) /\ limit.val > 0
    THEN [name |-> name, limit |-> limit]
    ELSE ValidationError

FiFoLiFoCreate(name, limit) ==
    IF IsStr(name) /\ IsInt(limit)
    THEN [name |-> name, limit |-> limit]
    ELSE ValidationError

model_dump(m) == m

(***************************************************************************)
(* The environment: what the network and the HydraKV server do with one    *)
(* request.  net = "fail" is no response at all (refused, timed out); with *)
(* net = "ok" the server answers, and app says what it answered:           *)
(*   "done"    the operation was performed (val: the value read, tok: the  *)
(*             token issued, Unset when the server issues none);           *)
(*   "absent"  the key, queue or database is not there / already there;    *)
(*   "denied"  the server refused (bad credential, token auth not          *)
(*             configured, not a HydraKV endpoint);                        *)
(*   "garbled" the answer is not a JSON document.                          *)
(***************************************************************************)
NetFail == [net |-> "fail", app |-> "none", val |-> "", tok |-> Unset]
Answer(app, val, tok) == [net |-> "ok", app |-> app, val |-> val, tok |-> tok]
NoEnv == [net |-> "unused", app |-> "none", val |-> "", tok |-> Unset]

WriteEnvs == {NetFail, Answer("done", "", Unset), Answer("absent", "", Unset),
              Answer("denied", "", Unset)}
ReadEnvs == {NetFail, Answer("absent", "", Unset), Answer("denied", "", Unset)}
                \cup {Answer("done", v, Unset) : v \in Values}
TokenEnvs == {NetFail, Answer("denied", "", Unset)}
                \cup {Answer("done", "", t) : t \in ServerTokens \cup {Unset}}
ProbeEnvs == {NetFail, Answer("done", "", Unset), Answer("absent", "", Unset),
              Answer("denied", "", Unset), Answer("garbled", "", Unset)}

NotJson == [notjson |-> TRUE]
IsJson(j) == "notjson" \notin DOMAIN j
HasKey(j, k) == k \in DOMAIN j

\* The operation a HydraKV server reads from an HTTP request line.
Route(req) ==
    LET m == req.method
        p == req.url.path
    IN  CASE m = "POST" /\ p = <<"create">> -> "create_db"
          [] m = "GET" /\ Len(p) = 2 /\ p[1] = "db" -> "exists"
          [] m = "PUT" /\ Len(p) = 2 /\ p[1] = "db" -> "set"
          [] m = "POST" /\ Len(p) = 2 /\ p[1] = "db" -> "setnx"
          [] m = "PATCH" /\ Len(p) = 2 /\ p[1] = "db" -> "incr"
          [] m = "DELETE" /\ Len(p) = 2 /\ p[1] = "db" -> "delete_db"
          [] m = "UPDATE" /\ Len(p) = 2 /\ p[1] = "db" -> "renew"
          [] m = "POST" /\ Len(p) = 3 /\ p[1] = "db" /\ p[3] = "keys" -> "get"
          [] m = "DELETE" /\ Len(p) = 3 /\ p[1] = "db" /\ p[3] = "keys" -> "delete"
          [] m = "POST" /\ p = <<"fifolifo">> -> "fifolifo_create"
          [] m = "PUT" /\ p = <<"fifolifo">> -> "fifolifo_push"
          [] m = "DELETE" /\ p = <<"fifolifo">> -> "fifolifo_delete"
          [] m = "POST" /\ p = <<"fifo">> -> "fifo_pop"
          [] m = "POST" /\ p = <<"lifo">> -> "lifo_pop"
          [] OTHER -> "unknown"

\* The server's HTTP answer to a request it received.
HttpServer(req, env) ==
    LET r == Route(req)
    IN  CASE env.app = "garbled" -> [status |-> 200, json |-> NotJson]
          [] r = "unknown" -> [status |-> 404, json |-> [error |-> "not found"]]
          [] env.app = "denied" ->
                [status |-> IF r = "renew" THEN 503 ELSE 401,
                 json |-> [error |-> "denied"]]
          [] env.app = "absent" ->
                CASE r = "exists" -> [status |-> 200, json |-> [exists |-> FALSE]]
                  [] r \in {"get", "fifo_pop", "lifo_pop"} ->
                        [status |-> 404, json |-> [value |-> ""]]
                  [] OTHER -> [status |-> 404, json |-> [error |-> "absent"]]
          [] env.app = "exists" -> [status |-> 409, json |-> [ok |-> FALSE]]
          [] OTHER ->
                CASE r = "exists" -> [status |-> 200, json |-> [exists |-> TRUE]]
                  [] r \in {"get", "fifo_pop", "lifo_pop"} ->
                        [status |-> 200, json |-> [value |-> env.val]]
                  [] r \in {"create_db", "renew"} /\ env.tok # Unset ->
                        [status |-> 200, json |-> [apikey |-> env.tok]]
                  [] OTHER -> [status |-> 200, json |-> [ok |-> TRUE]]

\* The typed message the server's RPC service answers with.
RpcServer(method, env) ==
    IF env.app = "done"
    THEN [ok |-> TRUE, value |-> env.val]
    ELSE [ok |-> FALSE, value |-> ""]

(***************************************************************************)
(* The two transports.  A call either fails (the library raises) or gives  *)
(* the response.  httpx raises for no response; it does not raise for an   *)
(* error status.  The gRPC stub raises grpc.RpcError for no response, for  *)
(* an exceeded deadline and for a non-OK status.                           *)
(***************************************************************************)
Failed(exc) == [failed |-> TRUE, exc |-> exc]

HttpSend(req, env) ==
    IF env.net = "fail"
    THEN Failed("httpx.TransportError")
    ELSE [failed |-> FALSE, resp |-> HttpServer(req, env)]

StubCall(req, env) ==
    IF req.stub.kind # "stub"
    THEN Failed("AttributeError")
    ELSE IF env.net = "fail" \/ env.app \in {"denied", "garbled"}
    THEN Failed("grpc.RpcError")
    ELSE [failed |-> FALSE, resp |-> RpcServer(req.method, env)]

(***************************************************************************)
(* class Hydrakv (src/src/hydrakv/client.py).  An object is the record of  *)
(* its attributes; _apikeys holds the identity of a dict on the heap, as a *)
(* Python attribute holds a reference.                                     *)
(***************************************************************************)
NoInstance == PyNone
IsInstance(o) == "_host" \in DOMAIN o

DictRef(id) == [kind |-> "dict", val |-> id]

InitialGrpcPort == 9292

\* grpc.secure_channel / grpc.insecure_channel, and KVServiceStub(channel)
Channel(host, port, secure) ==
    [kind |-> "channel", val |-> [host |-> host, port |-> port, secure |-> secure]]
KVServiceStub(channel) == [kind |-> "stub", val |-> channel.val]

\* open(self._trusted_cert).read(): open(None) raises TypeError
_get_trusted_cert(self) ==
    IF IsStr(self._trusted_cert)
    THEN [raised |-> "", val |-> "pem"]
    ELSE [raised |-> "TypeError", val |-> ""]

\* Mutant: the plain-HTTP branch forgets to create the channel and the stub.
_set_protocol_no_stub(self) ==
    [raised |-> "",
     self |-> [self EXCEPT !._http_str = IF self._https THEN "https://" ELSE "http://"]]

_set_protocol(self) ==
    IF self._https
    THEN IF self._use_grpc
         THEN LET cert == _get_trusted_cert(self)
                  channel == Channel(self._host, self._grpc_port, TRUE)
              IN  IF cert.raised # ""
                  THEN [raised |-> cert.raised, self |-> self]
                  ELSE [raised |-> "",
                        self |-> [self EXCEPT !._channel = channel,
                                              !._stub = KVServiceStub(channel),
                                              !._http_str = "https://"]]
         ELSE [raised |-> "", self |-> [self EXCEPT !._http_str = "https://"]]
    ELSE IF self._use_grpc
         THEN LET channel == Channel(self._host, self._grpc_port, FALSE)
              IN  [raised |-> "",
                   self |-> [self EXCEPT !._channel = channel,
                                         !._stub = KVServiceStub(channel),
                                         !._http_str = "http://"]]
         ELSE [raised |-> "", self |-> [self EXCEPT !._http_str = "http://"]]

\* f"{self._http_str}{self._host}:{self._port}/<path>"
Url(self, path) ==
    [scheme |-> self._http_str, host |-> self._host, port |-> self._port,
     path |-> path]

NoJson == [nojson |-> TRUE]
NoHeaders == [XApiKey |-> Unset]

HttpRequest(self, method, path, json, headers) ==
    [via |-> "http", method |-> method, url |-> Url(self, path), json |-> json,
     headers |-> headers]

RpcRequest(self, method, msg) ==
    [via |-> "rpc", stub |-> self._stub, method |-> method, msg |-> msg,
     timeout |-> self._grpc_deadline]

\* The probe: a synchronous GET of a database that does not exist.  Any
\* exception (no response, a body that is not JSON) ends in exit(1), which
\* raises SystemExit.
_chk_connection(self, env) ==
    LET req == HttpRequest(self, "GET", <<"db", "random4223423">>, NoJson, NoHeaders)
        response == HttpSend(req, env)
    IN  IF response.failed \/ ~IsJson(response.resp.json)
        THEN [exit |-> TRUE, json |-> NotJson, req |-> req]
        ELSE [exit |-> FALSE, json |-> response.resp.json, req |-> req]

\* Hydrakv.__init__: raised = "" when the constructor returns (the caller
\* holds the object), else the exception that left it (the caller holds
\* nothing).  fresh is the identity of the dict a `{}` creates.
__init__(host, port, use_grpc, grpc_port, grpc_deadline, https, log_lvl, trusted_cert, api_key, fresh, env) ==
    LET self0 == [_use_grpc |-> use_grpc,
                  _port |-> port,
                  _grpc_port |-> IF use_grpc THEN grpc_port ELSE InitialGrpcPort,
                  _host |-> host,
                  _client |-> PyNone,
                  log_lvl |-> log_lvl,
                  _https |-> https,
                  _trusted_cert |-> trusted_cert,
                  _channel |-> PyNone,
                  _stub |-> PyNone,
                  _grpc_deadline |-> grpc_deadline,
                  _apikeys |-> IF api_key.kind = "dict" THEN api_key.val ELSE fresh,
                  _http_str |-> ""]
        sp == _set_protocol(self0)
        chk == _chk_connection(sp.self, env)
    IN  IF sp.raised # ""
        THEN [raised |-> sp.raised, self |-> NoInstance, reqs |-> <<>>]
        ELSE IF chk.exit
        THEN [raised |-> "", self |-> sp.self, reqs |-> <<chk.req>>]
        ELSE IF ~HasKey(chk.json, "exists")
        THEN [raised |-> "Exception", self |-> NoInstance, reqs |-> <<chk.req>>]
        ELSE [raised |-> "", self |-> sp.self, reqs |-> <<chk.req>>]

_get_client(self) ==
    IF self._client = PyNone
    THEN [self EXCEPT !._client = [kind |-> "AsyncClient", val |-> 0]]
    ELSE self

\* Mutant: the stored credential wins over the caller's argument.
ResolveApiKey_store_first(apikeys, db, api_key) ==
    IF apikeys[db] # Unset THEN PyStr(apikeys[db])
    ELSE IF api_key = PyNone THEN PyStr("") ELSE api_key

\* `if api_key is None: api_key = self._apikeys.get(db, "")`
ResolveApiKey(apikeys, db, api_key) ==
    IF api_key = PyNone THEN PyStr(DictGet(apikeys, db, "")) ELSE api_key

\* `headers = {"X-API-Key": api_key} if api_key else {}`
AuthHeaders(api_key) ==
    IF Truthy(api_key) THEN [XApiKey |-> api_key.val] ELSE NoHeaders

(***************************************************************************)
(* How a method call ends: the object and its credential dict afterwards,  *)
(* the outcome the caller sees, and the requests put on the wire.          *)
(***************************************************************************)
Return(v) == [kind |-> "return", val |-> v]
Raise(exc) == [kind |-> "raise", exc |-> exc]
Ended(self, apikeys, outcome, reqs) ==
    [self |-> self, apikeys |-> apikeys, outcome |-> outcome, reqs |-> reqs]

\* The requests a transport call put on the wire: none when the stub is unset.
Sent(req, response) ==
    IF response.failed /\ response.exc = "AttributeError" THEN <<>> ELSE <<req>>

\* Mutant: the RPC message is filled with key and value the wrong way round.
set_swapped(self, apikeys, db, key, value, ttl, api_key, env) ==
    LET ak == ResolveApiKey(apikeys, db, api_key)
        sr == Set(key, ak, value, ttl)
    IN  IF ~IsValid(sr)
        THEN Ended(self, apikeys, Raise("ValidationError"), <<>>)
        ELSE IF self._use_grpc
        THEN LET request == RpcRequest(self, "Set",
                                [db |-> db, apikey |-> sr.apikey, key |-> sr.key,
                                 value |-> sr.key, ttl |-> sr.ttl])
                 response == StubCall(request, env)
             IN  IF response.failed
                 THEN Ended(self, apikeys, Raise(response.exc), Sent(request, response))
                 ELSE Ended(self, apikeys, Return(PyMsg(response.resp)), <<request>>)
        ELSE LET client == _get_client(self)
                 request == HttpRequest(client, "PUT", <<"db", db>>, model_dump(sr),
                                        AuthHeaders(ak))
                 resp == HttpSend(request, env)
             IN  IF resp.failed
                 THEN Ended(client, apikeys, Raise(resp.exc), <<request>>)
                 ELSE Ended(client, apikeys, Return(PyInt(resp.resp.status)), <<request>>)

set(self, apikeys, db, key, value, ttl, api_key, env) ==
    LET ak == ResolveApiKey(apikeys, db, api_key)
        sr == Set(key, ak, value, ttl)
    IN  IF ~IsValid(sr)
        THEN Ended(self, apikeys, Raise("ValidationError"), <<>>)
        ELSE IF self._use_grpc
        THEN LET request == RpcRequest(self, "Set",
                                [db |-> db, apikey |-> sr.apikey, key |-> sr.key,
                                 value |-> sr.value, ttl |-> sr.ttl])
                 response == StubCall(request, env)
             IN  IF response.failed
                 THEN Ended(self, apikeys, Raise(response.exc), Sent(request, response))
                 ELSE Ended(self, apikeys, Return(PyMsg(response.resp)), <<request>>)
        ELSE LET client == _get_client(self)
                 request == HttpRequest(client, "PUT", <<"db", db>>, model_dump(sr),
                                        AuthHeaders(ak))
                 resp == HttpSend(request, env)
             IN  IF resp.failed
                 THEN Ended(client, apikeys, Raise(resp.exc), <<request>>)
                 ELSE Ended(client, apikeys, Return(PyInt(resp.resp.status)), <<request>>)

\* Mutant: a failed transport call is logged and "" returned, as renewal does.
get_swallow(self, apikeys, db, key, api_key, env) ==
    LET ak == ResolveApiKey(apikeys, db, api_key)
        gr == Get(key, ak)
        client == _get_client(self)
        request == IF self._use_grpc
                   THEN RpcRequest(self, "Get",
                                   [db |-> db, apikey |-> gr.apikey, key |-> key])
                   ELSE HttpRequest(client, "POST", <<"db", db, "keys">>,
                                    model_dump(gr), AuthHeaders(ak))
    IN  IF ~IsValid(gr)
        THEN Ended(self, apikeys, Raise("ValidationError"), <<>>)
        ELSE Ended(IF self._use_grpc THEN self ELSE client, apikeys,
                   Return(PyStr(IF env.app = "done" THEN env.val ELSE "")),
                   <<request>>)

get(self, apikeys, db, key, api_key, env) ==
    LET ak == ResolveApiKey(apikeys, db, api_key)
        gr == Get(key, ak)
    IN  IF ~IsValid(gr)
        THEN Ended(self, apikeys, Raise("ValidationError"), <<>>)
        ELSE IF self._use_grpc
        THEN LET request == RpcRequest(self, "Get",
                                [db |-> db, apikey |-> gr.apikey, key |-> key])
                 response == StubCall(request, env)
             IN  IF response.failed
                 THEN Ended(self, apikeys, Raise(response.exc), Sent(request, response))
                 ELSE Ended(self, apikeys, Return(PyStr(response.resp.value)), <<request>>)
        ELSE LET client == _get_client(self)
                 request == HttpRequest(client, "POST", <<"db", db, "keys">>,
                                        model_dump(gr), AuthHeaders(ak))
                 resp == HttpSend(request, env)
             IN  IF resp.failed
                 THEN Ended(client, apikeys, Raise(resp.exc), <<request>>)
                 ELSE IF ~IsJson(resp.resp.json)
                 THEN Ended(client, apikeys, Raise("JSONDecodeError"), <<request>>)
                 ELSE IF ~HasKey(resp.resp.json, "value")
                 THEN Ended(client, apikeys, Raise("KeyError"), <<request>>)
                 ELSE Ended(client, apikeys, Return(PyStr(resp.resp.json.value)),
                            <<request>>)

setnx(self, apikeys, db, key, value, ttl, api_key, env) ==
    LET ak == ResolveApiKey(apikeys, db, api_key)
        sr == SetNX(key, value, ttl, ak)
    IN  IF ~IsValid(sr)
        THEN Ended(self, apikeys, Raise("ValidationError"), <<>>)
        ELSE IF self._use_grpc
        THEN LET request == RpcRequest(self, "SetNX",
                                [db |-> db, apikey |-> sr.apikey, key |-> sr.key,
                                 value |-> sr.value, ttl |-> sr.ttl])
                 response == StubCall(request, env)
             IN  IF response.failed
                 THEN Ended(self, apikeys, Raise(response.exc), Sent(request, response))
                 ELSE Ended(self, apikeys, Return(PyBool(response.resp.ok)), <<request>>)
        ELSE LET client == _get_client(self)
                 request == HttpRequest(client, "POST", <<"db", db>>, model_dump(sr),
                                        AuthHeaders(ak))
                 resp == HttpSend(request, env)
             IN  IF resp.failed
                 THEN Ended(client, apikeys, Raise(resp.exc), <<request>>)
                 ELSE Ended(client, apikeys, Return(PyInt(resp.resp.status)), <<request>>)

\* str(n) for an int n
Digits == <<"0", "1", "2", "3", "4", "5", "6", "7", "8", "9">>
RECURSIVE NatStr(_)
NatStr(n) == IF n < 10 THEN Digits[n + 1] ELSE NatStr(n \div 10) \o Digits[(n % 10) + 1]
str(v) == PyStr(IF v.val < 0 THEN "-" \o NatStr(0 - v.val) ELSE NatStr(v.val))

incr(self, apikeys, db, key, delta, api_key, env) ==
    LET ak == ResolveApiKey(apikeys, db, api_key)
        ir == Incr(key, ak, delta)
    IN  IF ~IsValid(ir)
        THEN Ended(self, apikeys, Raise("ValidationError"), <<>>)
        ELSE IF self._use_grpc
        THEN LET request == RpcRequest(self, "Incr",
                                [db |-> db, apikey |-> ir.apikey, key |-> ir.key,
                                 amount |-> str(ir.delta)])
                 response == StubCall(request, env)
             IN  IF response.failed
                 THEN Ended(self, apikeys, Raise(response.exc), Sent(request, response))
                 ELSE Ended(self, apikeys, Return(PyBool(response.resp.ok)), <<request>>)
        ELSE LET client == _get_client(self)
                 request == HttpRequest(client, "PATCH", <<"db", db>>, model_dump(ir),
                                        AuthHeaders(ak))
                 resp == HttpSend(request, env)
             IN  IF resp.failed
                 THEN Ended(client, apikeys, Raise(resp.exc), <<request>>)
                 ELSE Ended(client, apikeys, Return(PyInt(resp.resp.status)), <<request>>)

delete(self, apikeys, db, key, api_key, env) ==
    LET ak == ResolveApiKey(apikeys, db, api_key)
        dr == Delete(key, ak)
    IN  IF ~IsValid(dr)
        THEN Ended(self, apikeys, Raise("ValidationError"), <<>>)
        ELSE IF self._use_grpc
        THEN LET request == RpcRequest(self, "Delete",
                                [db |-> db, apikey |-> dr.apikey, key |-> dr.key])
                 response == StubCall(request, env)
             IN  IF response.failed
                 THEN Ended(self, apikeys, Raise(response.exc), Sent(request, response))
                 ELSE Ended(self, apikeys, Return(PyMsg(response.resp)), <<request>>)
        ELSE LET client == _get_client(self)
                 request == HttpRequest(client, "DELETE", <<"db", db, "keys">>,
                                        model_dump(dr), AuthHeaders(ak))
                 resp == HttpSend(request, env)
             IN  IF resp.failed
                 THEN Ended(client, apikeys, Raise(resp.exc), <<request>>)
                 ELSE Ended(client, apikeys, Return(PyInt(resp.resp.status)), <<request>>)

\* Mutant: deleting a database also drops its credential.
delete_db_purge(self, apikeys, name, api_key, env) ==
    LET ak == ResolveApiKey(apikeys, name.val, api_key)
        client == _get_client(self)
        request == HttpRequest(client, "DELETE", <<"db", name.val>>, NoJson,
                               AuthHeaders(ak))
        resp == HttpSend(request, env)
    IN  IF resp.failed
        THEN Ended(client, apikeys, Raise(resp.exc), <<request>>)
        ELSE Ended(client, [apikeys EXCEPT ![name.val] = Unset],
                   Return(PyInt(resp.resp.status)), <<request>>)

\* name is a str here: the default "" or the caller's string
delete_db(self, apikeys, name, api_key, env) ==
    LET ak == ResolveApiKey(apikeys, name.val, api_key)
        client == _get_client(self)
        request == HttpRequest(client, "DELETE", <<"db", name.val>>, NoJson,
                               AuthHeaders(ak))
        resp == HttpSend(request, env)
    IN  IF resp.failed
        THEN Ended(client, apikeys, Raise(resp.exc), <<request>>)
        ELSE Ended(client, apikeys, Return(PyInt(resp.resp.status)), <<request>>)

get_api_key_for_db(self, apikeys, db) ==
    Ended(self, apikeys, Return(PyStr(DictGet(apikeys, db, ""))), <<>>)

\* Mutant: the handler re-raises, as every other method's does.
renew_api_key_for_db_reraise(self, apikeys, db, env) ==
    LET client == _get_client(self)
        request == HttpRequest(client, "UPDATE", <<"db", db>>, NoJson,
                               [XApiKey |-> DictGet(apikeys, db, "")])
        resp == HttpSend(request, env)
    IN  IF resp.failed
        THEN Ended(client, apikeys, Raise(resp.exc), <<request>>)
        ELSE IF resp.resp.status = 503
        THEN Ended(client, apikeys, Raise("Exception"), <<request>>)
        ELSE IF ~IsJson(resp.resp.json) \/ ~HasKey(resp.resp.json, "apikey")
        THEN Ended(client, apikeys, Raise("KeyError"), <<request>>)
        ELSE Ended(client, [apikeys EXCEPT ![db] = resp.resp.json.apikey],
                   Return(PyStr(resp.resp.json.apikey)), <<request>>)

\* Every exception inside the try block is logged and turned into "".
renew_api_key_for_db(self, apikeys, db, env) ==
    LET client == _get_client(self)
        request == HttpRequest(client, "UPDATE", <<"db", db>>, NoJson,
                               [XApiKey |-> DictGet(apikeys, db, "")])
        resp == HttpSend(request, env)
    IN  IF resp.failed
        THEN Ended(client, apikeys, Return(PyStr("")), <<request>>)
        ELSE IF resp.resp.status = 503
        THEN Ended(client, apikeys, Return(PyStr("")), <<request>>)
        ELSE IF ~IsJson(resp.resp.json) \/ ~HasKey(resp.resp.json, "apikey")
        THEN Ended(client, apikeys, Return(PyStr("")), <<request>>)
        ELSE Ended(client, [apikeys EXCEPT ![db] = resp.resp.json.apikey],
                   Return(PyStr(resp.resp.json.apikey)), <<request>>)

\* The try block covers the model and the request; its handler only logs,
\* so after a failure `resp` is unbound and `resp.json()` raises
\* UnboundLocalError.
create_db(self, apikeys, name, env) ==
    LET cd == CreateDB(name)
        client == _get_client(self)
        request == HttpRequest(client, "POST", <<"create">>, model_dump(cd), NoHeaders)
        resp == HttpSend(request, env)
    IN  IF ~IsValid(cd)
        THEN Ended(self, apikeys, Raise("UnboundLocalError"), <<>>)
        ELSE IF resp.failed
        THEN Ended(client, apikeys, Raise("UnboundLocalError"), <<request>>)
        ELSE IF ~IsJson(resp.resp.json)
        THEN Ended(client, apikeys, Raise("JSONDecodeError"), <<request>>)
        ELSE IF HasKey(resp.resp.json, "apikey")
        THEN Ended(client, [apikeys EXCEPT ![name.val] = resp.resp.json.apikey],
                   Return(PyInt(resp.resp.status)), <<request>>)
        ELSE Ended(client, apikeys, Return(PyInt(resp.resp.status)), <<request>>)

fifolifo_delete(self, apikeys, name, env) ==
    LET ffr == FiFoLiFoDelete(name)
    IN  IF ~IsValid(ffr)
        THEN Ended(self, apikeys, Raise("ValidationError"), <<>>)
        ELSE IF self._use_grpc
        THEN LET request == RpcRequest(self, "FiFoLiFoDelete", [name |-> ffr.name])
                 response == StubCall(request, env)
             IN  IF response.failed
                 THEN Ended(self, apikeys, Raise(response.exc), Sent(request, response))
                 ELSE Ended(self, apikeys, Return(PyMsg(response.resp)), <<request>>)
        ELSE LET client == _get_client(self)
                 request == HttpRequest(client, "DELETE", <<"fifolifo">>,
                                        model_dump(ffr), NoHeaders)
                 resp == HttpSend(request, env)
             IN  IF resp.failed
                 THEN Ended(client, apikeys, Raise(resp.exc), <<request>>)
                 ELSE Ended(client, apikeys, Return(PyInt(resp.resp.status)), <<request>>)

fifolifo_push(self, apikeys, name, value, env) ==
    LET ffp == FiFoLiFoPush(name, value)
    IN  IF ~IsValid(ffp)
        THEN Ended(self, apikeys, Raise("ValidationError"), <<>>)
        ELSE IF self._use_grpc
        THEN LET request == RpcRequest(self, "FiFoLiFoPush",
                                [name |-> ffp.name, value |-> ffp.value])
                 response == StubCall(request, env)
             IN  IF response.failed
                 THEN Ended(self, apikeys, Raise(response.exc), Sent(request, response))
                 ELSE Ended(self, apikeys, Return(PyMsg(response.resp)), <<request>>)
        ELSE LET client == _get_client(self)
                 request == HttpRequest(client, "PUT", <<"fifolifo">>,
                                        model_dump(ffp), NoHeaders)
                 resp == HttpSend(request, env)
             IN  IF resp.failed
                 THEN Ended(client, apikeys, Raise(resp.exc), <<request>>)
                 ELSE Ended(client, apikeys, Return(PyInt(resp.resp.status)), <<request>>)

\* resp.json().get("value", "")
JsonGet(j, k, dflt) == IF HasKey(j, k) THEN j[k] ELSE dflt

\* Mutant: an empty value is taken for a failure.
fifo_pop_strict(self, apikeys, name, env) ==
    LET ffp == FiFoLiFoPop(name)
        client == _get_client(self)
        request == IF self._use_grpc
                   THEN RpcRequest(self, "FiFoLiFoFPop", [name |-> ffp.name])
                   ELSE HttpRequest(client, "POST", <<"fifo">>, model_dump(ffp),
                                    NoHeaders)
    IN  IF ~IsValid(ffp)
        THEN Ended(self, apikeys, Raise("ValidationError"), <<>>)
        ELSE Ended(IF self._use_grpc THEN self ELSE client, apikeys,
                   IF env.app = "done" /\ env.val # ""
                   THEN Return(PyStr(env.val)) ELSE Raise("LookupError"),
                   <<request>>)

fifo_pop(self, apikeys, name, env) ==
    LET ffp == FiFoLiFoPop(name)
    IN  IF ~IsValid(ffp)
        THEN Ended(self, apikeys, Raise("ValidationError"), <<>>)
        ELSE IF self._use_grpc
        THEN LET request == RpcRequest(self, "FiFoLiFoFPop", [name |-> ffp.name])
                 response == StubCall(request, env)
             IN  IF response.failed
                 THEN Ended(self, apikeys, Raise(response.exc), Sent(request, response))
                 ELSE Ended(self, apikeys, Return(PyStr(response.resp.value)), <<request>>)
        ELSE LET client == _get_client(self)
                 request == HttpRequest(client, "POST", <<"fifo">>, model_dump(ffp),
                                        NoHeaders)
                 resp == HttpSend(request, env)
             IN  IF resp.failed
                 THEN Ended(client, apikeys, Raise(resp.exc), <<request>>)
                 ELSE IF ~IsJson(resp.resp.json)
                 THEN Ended(client, apikeys, Raise("JSONDecodeError"), <<request>>)
                 ELSE Ended(client, apikeys,
                            Return(PyStr(JsonGet(resp.resp.json, "value", ""))),
                            <<request>>)

lifo_pop(self, apikeys, name, env) ==
    LET ffp == FiFoLiFoPop(name)
    IN  IF ~IsValid(ffp)
        THEN Ended(self, apikeys, Raise("ValidationError"), <<>>)
        ELSE IF self._use_grpc
        THEN LET request == RpcRequest(self, "FiFoLiFoLPop", [name |-> ffp.name])
                 response == StubCall(request, env)
             IN  IF response.failed
                 THEN Ended(self, apikeys, Raise(response.exc), Sent(request, response))
                 ELSE Ended(self, apikeys, Return(PyStr(response.resp.value)), <<request>>)
        ELSE LET client == _get_client(self)
                 request == HttpRequest(client, "POST", <<"lifo">>, model_dump(ffp),
                                        NoHeaders)
                 resp == HttpSend(request, env)
             IN  IF resp.failed
                 THEN Ended(client, apikeys, Raise(resp.exc), <<request>>)
                 ELSE IF ~IsJson(resp.resp.json)
                 THEN Ended(client, apikeys, Raise("JSONDecodeError"), <<request>>)
                 ELSE Ended(client, apikeys,
                            Return(PyStr(JsonGet(resp.resp.json, "value", ""))),
                            <<request>>)

\* Mutant: queue-create branches on the transport flag like queue-push.
fifolifo_create_dispatch(self, apikeys, name, limit, env) ==
    LET ffc == FiFoLiFoCreate(name, limit)
    IN  IF ~IsValid(ffc)
        THEN Ended(self, apikeys, Raise("ValidationError"), <<>>)
        ELSE IF self._use_grpc
        THEN LET request == RpcRequest(self, "FiFoLiFoCreate",
                                [name |-> ffc.name, limit |-> ffc.limit])
                 response == StubCall(request, env)
             IN  IF response.failed
                 THEN Ended(self, apikeys, Raise(response.exc), Sent(request, response))
                 ELSE Ended(self, apikeys, Return(PyMsg(response.resp)), <<request>>)
        ELSE LET client == _get_client(self)
                 request == HttpRequest(client, "POST", <<"fifolifo">>,
                                        model_dump(ffc), NoHeaders)
                 resp == HttpSend(request, env)
             IN  IF resp.failed
                 THEN Ended(client, apikeys, Raise(resp.exc), <<request>>)
                 ELSE Ended(client, apikeys, Return(PyInt(resp.resp.status)), <<request>>)

fifolifo_create(self, apikeys, name, limit, env) ==
    LET ffc == FiFoLiFoCreate(name, limit)
        client == _get_client(self)
        request == HttpRequest(client, "POST", <<"fifolifo">>, model_dump(ffc),
                               NoHeaders)
        resp == HttpSend(request, env)
    IN  IF ~IsValid(ffc)
        THEN Ended(self, apikeys, Raise("ValidationError"), <<>>)
        ELSE IF resp.failed
        THEN Ended(client, apikeys, Raise(resp.exc), <<request>>)
        ELSE Ended(client, apikeys, Return(PyInt(resp.resp.status)), <<request>>)

(***************************************************************************)
(* The state machine.  A caller constructs a client, then awaits one       *)
(* method call after the other: calls[c] holds the call that has just      *)
(* ended until the caller resumes with its outcome.                        *)
(***************************************************************************)
(***************************************************************************)
(* The server as the HydraKV documentation describes it: a key-value store *)
(* per database, one queue, and the tokens it has issued.  Serve gives the *)
(* answer to a request the client put on the wire and what the server      *)
(* holds afterwards.                                                       *)
(***************************************************************************)
ServerKey == "k1"
QueueName == "q1"
StoredValues == {"v1", "v2"}
NoServer == [kv |-> [d \in DBs |-> Unset], q |-> <<>>, issued |-> 0]

\* int(s) for the decimal strings the model uses
StrNat(s) == CHOOSE n \in 0..(MaxCounter + 9) : NatStr(n) = s
IsNatStr(s) == \E n \in 0..(MaxCounter + 9) : NatStr(n) = s

RpcRoute(method) ==
    CASE method = "Set" -> "set"
      [] method = "Get" -> "get"
      [] method = "SetNX" -> "setnx"
      [] method = "Incr" -> "incr"
      [] method = "Delete" -> "delete"
      [] method = "FiFoLiFoPush" -> "fifolifo_push"
      [] method = "FiFoLiFoDelete" -> "fifolifo_delete"
      [] method = "FiFoLiFoFPop" -> "fifo_pop"
      [] method = "FiFoLiFoLPop" -> "lifo_pop"
      [] OTHER -> "unknown"

\* What a request asks for, whichever transport carried it.
Wire(req) ==
    LET body == IF req.via = "http" THEN req.json ELSE req.msg
        Field(f) == IF f \in DOMAIN body THEN body[f].val ELSE ""
    IN  [op |-> IF req.via = "http" THEN Route(req) ELSE RpcRoute(req.method),
         db |-> IF req.via = "rpc"
                THEN (IF "db" \in DOMAIN body THEN body.db ELSE "")
                ELSE (IF Len(req.url.path) >= 2 THEN req.url.path[2] ELSE ""),
         key |-> Field("key"),
         value |-> Field("value"),
         name |-> Field("name"),
         amount |-> IF req.via = "http"
                    THEN (IF "delta" \in DOMAIN body THEN body.delta.val ELSE 0)
                    ELSE (IF "amount" \in DOMAIN body /\ IsNatStr(body.amount.val)
                          THEN StrNat(body.amount.val) ELSE 0)]

TokenName(n) == "s" \o NatStr(n)

Served(env, srv) == [env |-> env, server |-> srv]

Serve(srv, req) ==
    LET w == Wire(req)
        known == w.db \in DBs /\ w.key = ServerKey
        cur == srv.kv[w.db]
    IN  CASE w.op \in {"set", "get", "setnx", "incr", "delete"} /\ ~known ->
                Served(Answer("absent", "", Unset), srv)
          [] w.op = "set" ->
                Served(Answer("done", "", Unset), [srv EXCEPT !.kv[w.db] = w.value])
          [] w.op = "get" ->
                IF cur = Unset
                THEN Served(Answer("absent", "", Unset), srv)
                ELSE Served(Answer("done", cur, Unset), srv)
          [] w.op = "delete" ->
                Served(Answer("done", "", Unset), [srv EXCEPT !.kv[w.db] = Unset])
          [] w.op = "setnx" ->
                IF cur = Unset
                THEN Served(Answer("done", "", Unset),
                            [srv EXCEPT !.kv[w.db] = w.value])
                ELSE Served(Answer("exists", "", Unset), srv)
          [] w.op = "incr" ->
                IF cur # Unset /\ ~IsNatStr(cur)
                THEN Served(Answer("denied", "", Unset), srv)
                ELSE LET new == (IF cur = Unset THEN 0 ELSE StrNat(cur)) + w.amount
                     IN  Served(Answer("done", NatStr(new), Unset),
                                [srv EXCEPT !.kv[w.db] = NatStr(new)])
          [] w.op = "fifolifo_push" /\ w.name = QueueName ->
                Served(Answer("done", "", Unset),
                       [srv EXCEPT !.q = Append(srv.q, w.value)])
          [] w.op = "fifo_pop" /\ w.name = QueueName /\ srv.q # <<>> ->
                Served(Answer("done", Head(srv.q), Unset),
                       [srv EXCEPT !.q = Tail(srv.q)])
          [] w.op = "lifo_pop" /\ w.name = QueueName /\ srv.q # <<>> ->
                Served(Answer("done", srv.q[Len(srv.q)], Unset),
                       [srv EXCEPT !.q = SubSeq(srv.q, 1, Len(srv.q) - 1)])
          [] w.op \in {"fifo_pop", "lifo_pop"} ->
                Served(Answer("absent", "", Unset), srv)
          [] w.op = "renew" ->
                Served(Answer("done", "", TokenName(srv.issued + 1)),
                       [srv EXCEPT !.issued = srv.issued + 1])
          [] OTHER -> Served(Answer("done", "", Unset), srv)

(***************************************************************************)
(* Tasks of one asyncio event loop.                                        *)
(***************************************************************************)
Tasks == {1, 2}
NoTask == [pc |-> "none"]
Free == 0

NoCall == [op |-> "none"]
NoCtor == [called |-> FALSE, use_grpc |-> FALSE, env |-> NoEnv, raised |-> "",
           reqs |-> <<>>]

LimitArgs == {PyNone} \cup {PyInt(n) : n \in (0 - 1)..MaxLimit}
DbNameArgs == {PyStr(d) : d \in DBs}
CertArgs == {PyNone, PyStr("ca.pem")}
CredentialArgs == {PyNone, DictRef("caller")}

Init ==
    /\ inst = [c \in Clients |-> NoInstance]
    /\ ctor = [c \in Clients |-> NoCtor]
    /\ heap \in {[d \in DictIds |-> IF d = "caller" THEN m ELSE EmptyDict] :
                    m \in InitialMappings}
    /\ calls = [c \in Clients |-> NoCall]
    /\ server = NoServer
    /\ tasks = [t \in Tasks |-> NoTask]
    /\ loop = Free

Idle == \A c \in Clients : calls[c] = NoCall
Usable(c) == Idle /\ IsInstance(inst[c])
Store(c) == heap[inst[c]._apikeys]

\* Hydrakv(host, port, use_grpc=..., https=..., trusted_cert=..., api_key=...)
Construct(c) ==
    /\ Idle
    /\ ~ctor[c].called
    /\ \E host \in Hosts, use_grpc \in BOOLEAN, https \in BOOLEAN,
          trusted_cert \in CertArgs, api_key \in CredentialArgs, env \in ProbeEnvs :
          LET r == __init__(host, DefaultPort, use_grpc, DefaultGrpcPort,
                            DefaultGrpcDeadline, https, "DEBUG", trusted_cert,
                            api_key, OwnDict(c), env)
          IN  /\ inst' = [inst EXCEPT ![c] = r.self]
              /\ ctor' = [ctor EXCEPT ![c] =
                            [called |-> TRUE, use_grpc |-> use_grpc,
                             env |-> IF r.reqs = <<>> THEN NoEnv ELSE env,
                             raised |-> r.raised, reqs |-> r.reqs]]
    /\ UNCHANGED <<heap, calls, server, tasks, loop>>

\* The method call op(args) on client c ends as r says.
Finish(c, op, args, env, r) ==
    /\ inst' = [inst EXCEPT ![c] = r.self]
    /\ heap' = [heap EXCEPT ![inst[c]._apikeys] = r.apikeys]
    /\ calls' = [calls EXCEPT ![c] =
                    [op |-> op, args |-> args,
                     env |-> IF r.reqs = <<>> THEN NoEnv ELSE env,
                     outcome |-> r.outcome, reqs |-> r.reqs]]
    /\ UNCHANGED <<ctor, tasks, loop>>

Complete(c, op, args, env, r) == Finish(c, op, args, env, r) /\ UNCHANGED server

CallSet(c) ==
    /\ Usable(c)
    /\ \E db \in DBs, key \in KeyArgs, value \in ValueArgs, api_key \in ApiKeyArgs,
          env \in WriteEnvs :
          Complete(c, "set",
                   [db |-> db, key |-> key, value |-> value, api_key |-> api_key],
                   env,
                   set(inst[c], Store(c), db, key, value, Default(Omitted, PyInt(0)),
                       api_key, env))

CallGet(c) ==
    /\ Usable(c)
    /\ \E db \in DBs, key \in KeyArgs, api_key \in ApiKeyArgs, env \in ReadEnvs :
          Complete(c, "get", [db |-> db, key |-> key, api_key |-> api_key], env,
                   get(inst[c], Store(c), db, key, api_key, env))

CallSetnx(c) ==
    /\ Usable(c)
    /\ \E db \in DBs, key \in KeyArgs, value \in ValueArgs, api_key \in ApiKeyArgs,
          env \in WriteEnvs :
          Complete(c, "setnx",
                   [db |-> db, key |-> key, value |-> value, api_key |-> api_key],
                   env,
                   setnx(inst[c], Store(c), db, key, value, Default(Omitted, PyInt(0)),
                         api_key, env))

CallIncr(c) ==
    /\ Usable(c)
    /\ \E db \in DBs, key \in KeyArgs, delta \in DeltaArgs, api_key \in ApiKeyArgs,
          env \in WriteEnvs :
          Complete(c, "incr",
                   [db |-> db, key |-> key, delta |-> delta, api_key |-> api_key],
                   env,
                   incr(inst[c], Store(c), db, key, Default(delta, PyInt(1)),
                        api_key, env))

CallDelete(c) ==
    /\ Usable(c)
    /\ \E db \in DBs, key \in KeyArgs, api_key \in ApiKeyArgs, env \in WriteEnvs :
          Complete(c, "delete", [db |-> db, key |-> key, api_key |-> api_key], env,
                   delete(inst[c], Store(c), db, key, api_key, env))

CallDeleteDb(c) ==
    /\ Usable(c)
    /\ \E name \in DbNameArgs \cup {Omitted}, api_key \in ApiKeyArgs,
          env \in WriteEnvs :
          Complete(c, "delete_db", [name |-> name, api_key |-> api_key], env,
                   delete_db(inst[c], Store(c), Default(name, PyStr("")),
                             api_key, env))

CallGetApiKeyForDb(c) ==
    /\ Usable(c)
    /\ \E db \in DBs :
          Complete(c, "get_api_key_for_db", [db |-> db], NoEnv,
                   get_api_key_for_db(inst[c], Store(c), db))

CallRenewApiKeyForDb(c) ==
    /\ Usable(c)
    /\ \E db \in DBs, env \in TokenEnvs :
          Complete(c, "renew_api_key_for_db", [db |-> db], env,
                   renew_api_key_for_db(inst[c], Store(c), db, env))

CallCreateDb(c) ==
    /\ Usable(c)
    /\ \E name \in DbNameArgs \cup {Omitted, PyNone}, env \in TokenEnvs :
          Complete(c, "create_db", [name |-> name], env,
                   create_db(inst[c], Store(c), Default(name, PyStr("")), env))

CallFifolifoDelete(c) ==
    /\ Usable(c)
    /\ \E name \in NameArgs, env \in WriteEnvs :
          Complete(c, "fifolifo_delete", [name |-> name], env,
                   fifolifo_delete(inst[c], Store(c), name, env))

CallFifolifoPush(c) ==
    /\ Usable(c)
    /\ \E name \in NameArgs, value \in ValueArgs, env \in WriteEnvs :
          Complete(c, "fifolifo_push", [name |-> name, value |-> value], env,
                   fifolifo_push(inst[c], Store(c), name, value, env))

CallFifoPop(c) ==
    /\ Usable(c)
    /\ \E name \in NameArgs, env \in ReadEnvs :
          Complete(c, "fifo_pop", [name |-> name], env,
                   fifo_pop(inst[c], Store(c), name, env))

CallLifoPop(c) ==
    /\ Usable(c)
    /\ \E name \in NameArgs, env \in ReadEnvs :
          Complete(c, "lifo_pop", [name |-> name], env,
                   lifo_pop(inst[c], Store(c), name, env))

CallFifolifoCreate(c) ==
    /\ Usable(c)
    /\ \E name \in NameArgs, limit \in LimitArgs, env \in WriteEnvs :
          Complete(c, "fifolifo_create", [name |-> name, limit |-> limit], env,
                   fifolifo_create(inst[c], Store(c), name, limit, env))

\* The awaiting caller takes the outcome and goes on.
CallerResumes ==
    /\ ~Idle
    /\ calls' = [c \in Clients |-> NoCall]
    /\ UNCHANGED <<inst, ctor, heap, server, tasks, loop>>

\* One caller with one client.
SpecClients == {1}

Next ==
    \/ \E c \in SpecClients :
        \/ Construct(c)
        \/ CallSet(c)
        \/ CallGet(c)
        \/ CallSetnx(c)
        \/ CallIncr(c)
        \/ CallDelete(c)
        \/ CallDeleteDb(c)
        \/ CallGetApiKeyForDb(c)
        \/ CallRenewApiKeyForDb(c)
        \/ CallCreateDb(c)
        \/ CallFifolifoDelete(c)
        \/ CallFifolifoPush(c)
        \/ CallFifoPop(c)
        \/ CallLifoPop(c)
        \/ CallFifolifoCreate(c)
    \/ CallerResumes

Spec == Init /\ [][Next]_vars

(***************************************************************************)
(* Side by side: client 1 over HTTP and client 2 over RPC, built from the  *)
(* same arguments but use_grpc, make the same calls against the same       *)
(* server answers.                                                         *)
(***************************************************************************)
HttpSide == 1
RpcSide == 2

BothConstruct ==
    /\ Idle
    /\ \A c \in Clients : ~ctor[c].called
    /\ \E host \in Hosts, api_key \in CredentialArgs, env \in ProbeEnvs :
          LET r == [c \in Clients |->
                        __init__(host, DefaultPort, c = RpcSide, DefaultGrpcPort,
                                 DefaultGrpcDeadline, FALSE, "DEBUG", PyNone,
                                 api_key, OwnDict(c), env)]
          IN  /\ inst' = [c \in Clients |-> r[c].self]
              /\ ctor' = [c \in Clients |->
                            [called |-> TRUE, use_grpc |-> c = RpcSide,
                             env |-> IF r[c].reqs = <<>> THEN NoEnv ELSE env,
                             raised |-> r[c].raised, reqs |-> r[c].reqs]]
    /\ UNCHANGED <<heap, calls, server, tasks, loop>>

BothUsable == Idle /\ \A c \in Clients : IsInstance(inst[c])

\* Both calls op(args) end as r[1] and r[2] say.
BothComplete(op, args, env, r) ==
    /\ inst' = [c \in Clients |-> r[c].self]
    /\ heap' = [d \in DictIds |->
                    IF \E c \in Clients : inst[c]._apikeys = d
                    THEN r[CHOOSE c \in Clients : inst[c]._apikeys = d].apikeys
                    ELSE heap[d]]
    /\ calls' = [c \in Clients |->
                    [op |-> op, args |-> args,
                     env |-> IF r[c].reqs = <<>> THEN NoEnv ELSE env,
                     outcome |-> r[c].outcome, reqs |-> r[c].reqs]]
    /\ UNCHANGED <<ctor, server, tasks, loop>>

BothSet ==
    /\ BothUsable
    /\ \E db \in DBs, key \in KeyArgs, value \in ValueArgs, api_key \in ApiKeyArgs, env \in WriteEnvs :
          BothComplete("set", [db |-> db, key |-> key, value |-> value, api_key |-> api_key], env,
                       [c \in Clients |->
                            set(inst[c], Store(c), db, key, value, Default(Omitted, PyInt(0)), api_key, env)])

BothGet ==
    /\ BothUsable
    /\ \E db \in DBs, key \in KeyArgs, api_key \in ApiKeyArgs, env \in ReadEnvs :
          BothComplete("get", [db |-> db, key |-> key, api_key |-> api_key], env,
                       [c \in Clients |->
                            get(inst[c], Store(c), db, key, api_key, env)])

BothSetnx ==
    /\ BothUsable
    /\ \E db \in DBs, key \in KeyArgs, value \in ValueArgs, api_key \in ApiKeyArgs, env \in WriteEnvs :
          BothComplete("setnx", [db |-> db, key |-> key, value |-> value, api_key |-> api_key], env,
                       [c \in Clients |->
                            setnx(inst[c], Store(c), db, key, value, Default(Omitted, PyInt(0)), api_key, env)])

BothIncr ==
    /\ BothUsable
    /\ \E db \in DBs, key \in KeyArgs, delta \in DeltaArgs, api_key \in ApiKeyArgs, env \in WriteEnvs :
          BothComplete("incr", [db |-> db, key |-> key, delta |-> delta, api_key |-> api_key], env,
                       [c \in Clients |->
                            incr(inst[c], Store(c), db, key, Default(delta, PyInt(1)), api_key, env)])

BothDelete ==
    /\ BothUsable
    /\ \E db \in DBs, key \in KeyArgs, api_key \in ApiKeyArgs, env \in WriteEnvs :
          BothComplete("delete", [db |-> db, key |-> key, api_key |-> api_key], env,
                       [c \in Clients |->
                            delete(inst[c], Store(c), db, key, api_key, env)])

BothFifolifoPush ==
    /\ BothUsable
    /\ \E name \in NameArgs, value \in ValueArgs, env \in WriteEnvs :
          BothComplete("fifolifo_push", [name |-> name, value |-> value], env,
                       [c \in Clients |->
                            fifolifo_push(inst[c], Store(c), name, value, env)])

BothFifolifoDelete ==
    /\ BothUsable
    /\ \E name \in NameArgs, env \in WriteEnvs :
          BothComplete("fifolifo_delete", [name |-> name], env,
                       [c \in Clients |->
                            fifolifo_delete(inst[c], Store(c), name, env)])

BothFifoPop ==
    /\ BothUsable
    /\ \E name \in NameArgs, env \in ReadEnvs :
          BothComplete("fifo_pop", [name |-> name], env,
                       [c \in Clients |->
                            fifo_pop(inst[c], Store(c), name, env)])

BothLifoPop ==
    /\ BothUsable
    /\ \E name \in NameArgs, env \in ReadEnvs :
          BothComplete("lifo_pop", [name |-> name], env,
                       [c \in Clients |->
                            lifo_pop(inst[c], Store(c), name, env)])

NextParity ==
    \/ BothConstruct
    \/ BothSet
    \/ BothGet
    \/ BothSetnx
    \/ BothIncr
    \/ BothDelete
    \/ BothFifolifoPush
    \/ BothFifolifoDelete
    \/ BothFifoPop
    \/ BothLifoPop
    \/ CallerResumes

SpecParity == Init /\ [][NextParity]_vars

(***************************************************************************)
(* One HTTP client and one RPC client in front of the server that keeps    *)
(* state: each request a call puts on the wire is answered by Serve, or    *)
(* gets no response.                                                       *)
(***************************************************************************)
Constructed(c, use_grpc, api_key) ==
    __init__("h1", DefaultPort, use_grpc, DefaultGrpcPort, DefaultGrpcDeadline,
             FALSE, "DEBUG", PyNone, api_key, OwnDict(c), Answer("absent", "", Unset))

InitStore ==
    /\ inst = [c \in Clients |-> Constructed(c, c = RpcSide, PyNone).self]
    /\ ctor = [c \in Clients |->
                [called |-> TRUE, use_grpc |-> c = RpcSide,
                 env |-> Answer("absent", "", Unset), raised |-> "",
                 reqs |-> Constructed(c, c = RpcSide, PyNone).reqs]]
    /\ heap = [d \in DictIds |-> EmptyDict]
    /\ calls = [c \in Clients |-> NoCall]
    /\ server = NoServer
    /\ tasks = [t \in Tasks |-> NoTask]
    /\ loop = Free

WithinBounds(srv) ==
    /\ Len(srv.q) <= MaxQueue
    /\ srv.issued <= MaxIssued
    /\ \A d \in DBs : IsNatStr(srv.kv[d]) => StrNat(srv.kv[d]) <= MaxCounter

\* What can come back for the requests a call put on the wire: nothing was
\* sent, the request got no response, or the server answered it.
Answers(reqs) ==
    IF reqs = <<>>
    THEN {Served(NoEnv, server)}
    ELSE {Served(NetFail, server)}
            \cup {a \in {Serve(server, reqs[1])} : WithinBounds(a.server)}

\* The call op(args) on client c got answer a and ended as r says.
AnsweredCall(c, op, args, a, r) == Finish(c, op, args, a.env, r) /\ server' = a.server

StoreKeyArgs == {PyStr(ServerKey)}
StoreValueArgs == {PyStr(v) : v \in StoredValues}
StoreNameArgs == {PyStr(QueueName)}

StoreSet(c) ==
    /\ Usable(c)
    /\ \E db \in DBs, key \in StoreKeyArgs, value \in StoreValueArgs :
          \E a \in Answers(set(inst[c], Store(c), db, key, value, Default(Omitted, PyInt(0)), PyNone, NoEnv).reqs) :
              AnsweredCall(c, "set", [db |-> db, key |-> key, value |-> value, api_key |-> PyNone], a,
                  set(inst[c], Store(c), db, key, value, Default(Omitted, PyInt(0)), PyNone, a.env))

StoreGet(c) ==
    /\ Usable(c)
    /\ \E db \in DBs, key \in StoreKeyArgs :
          \E a \in Answers(get(inst[c], Store(c), db, key, PyNone, NoEnv).reqs) :
              AnsweredCall(c, "get", [db |-> db, key |-> key, api_key |-> PyNone], a,
                  get(inst[c], Store(c), db, key, PyNone, a.env))

StoreDelete(c) ==
    /\ Usable(c)
    /\ \E db \in DBs, key \in StoreKeyArgs :
          \E a \in Answers(delete(inst[c], Store(c), db, key, PyNone, NoEnv).reqs) :
              AnsweredCall(c, "delete", [db |-> db, key |-> key, api_key |-> PyNone], a,
                  delete(inst[c], Store(c), db, key, PyNone, a.env))

StoreSetnx(c) ==
    /\ Usable(c)
    /\ \E db \in DBs, key \in StoreKeyArgs, value \in StoreValueArgs :
          \E a \in Answers(setnx(inst[c], Store(c), db, key, value, Default(Omitted, PyInt(0)), PyNone, NoEnv).reqs) :
              AnsweredCall(c, "setnx", [db |-> db, key |-> key, value |-> value, api_key |-> PyNone], a,
                  setnx(inst[c], Store(c), db, key, value, Default(Omitted, PyInt(0)), PyNone, a.env))

StoreIncr(c) ==
    /\ Usable(c)
    /\ \E db \in DBs, key \in StoreKeyArgs, delta \in DeltaArgs :
          \E a \in Answers(incr(inst[c], Store(c), db, key, Default(delta, PyInt(1)), PyNone, NoEnv).reqs) :
              AnsweredCall(c, "incr", [db |-> db, key |-> key, delta |-> delta, api_key |-> PyNone], a,
                  incr(inst[c], Store(c), db, key, Default(delta, PyInt(1)), PyNone, a.env))

StorePush(c) ==
    /\ Usable(c)
    /\ \E name \in StoreNameArgs, value \in StoreValueArgs :
          \E a \in Answers(fifolifo_push(inst[c], Store(c), name, value, NoEnv).reqs) :
              AnsweredCall(c, "fifolifo_push", [name |-> name, value |-> value], a,
                  fifolifo_push(inst[c], Store(c), name, value, a.env))

StoreFifoPop(c) ==
    /\ Usable(c)
    /\ \E name \in StoreNameArgs :
          \E a \in Answers(fifo_pop(inst[c], Store(c), name, NoEnv).reqs) :
              AnsweredCall(c, "fifo_pop", [name |-> name], a,
                  fifo_pop(inst[c], Store(c), name, a.env))

StoreLifoPop(c) ==
    /\ Usable(c)
    /\ \E name \in StoreNameArgs :
          \E a \in Answers(lifo_pop(inst[c], Store(c), name, NoEnv).reqs) :
              AnsweredCall(c, "lifo_pop", [name |-> name], a,
                  lifo_pop(inst[c], Store(c), name, a.env))

NextStore ==
    \/ \E c \in Clients :
        \/ StoreSet(c)
        \/ StoreGet(c)
        \/ StoreDelete(c)
        \/ StoreSetnx(c)
        \/ StoreIncr(c)
        \/ StorePush(c)
        \/ StoreFifoPop(c)
        \/ StoreLifoPop(c)
    \/ CallerResumes

SpecStore == InitStore /\ [][NextStore]_vars

(***************************************************************************)
(* Two clients in one process, each built by its own constructor call,     *)
(* possibly from the same credential mapping.                              *)
(***************************************************************************)
SharedConstruct(c) ==
    /\ Idle
    /\ ~ctor[c].called
    /\ \E api_key \in CredentialArgs :
          LET r == Constructed(c, FALSE, api_key)
          IN  /\ inst' = [inst EXCEPT ![c] = r.self]
              /\ ctor' = [ctor EXCEPT ![c] =
                            [called |-> TRUE, use_grpc |-> FALSE,
                             env |-> Answer("absent", "", Unset),
                             raised |-> r.raised, reqs |-> r.reqs]]
    /\ UNCHANGED <<heap, calls, server, tasks, loop>>

SharedCreateDb(c) ==
    /\ Usable(c)
    /\ \E name \in DbNameArgs, env \in TokenEnvs :
          Complete(c, "create_db", [name |-> name], env,
                   create_db(inst[c], Store(c), name, env))

SharedRenewApiKeyForDb(c) ==
    /\ Usable(c)
    /\ \E db \in DBs, env \in TokenEnvs :
          Complete(c, "renew_api_key_for_db", [db |-> db], env,
                   renew_api_key_for_db(inst[c], Store(c), db, env))

NextShared ==
    \/ \E c \in Clients :
        \/ SharedConstruct(c)
        \/ SharedCreateDb(c)
        \/ SharedRenewApiKeyForDb(c)
    \/ CallerResumes

SpecShared == Init /\ [][NextShared]_vars

(***************************************************************************)
(* Tasks of one event loop calling one client (asyncio.create_task and     *)
(* gather, as benchmark_op does).  A coroutine runs on the loop's thread   *)
(* until it awaits: `await client.put(...)` of httpx suspends the task and *)
(* frees the loop; `self._stub.Set(...)` is a call of the synchronous gRPC *)
(* stub, which keeps the thread until the response is there.               *)
(***************************************************************************)
TheClient == 1
Pending == [kind |-> "pending"]

\* The method op applied to args.
Run(op, args, self, apikeys, env) ==
    CASE op = "set" -> set(self, apikeys, args.db, args.key, args.value, PyInt(0),
                           PyNone, env)
      [] op = "get" -> get(self, apikeys, args.db, args.key, PyNone, env)
      [] OTHER -> renew_api_key_for_db(self, apikeys, args.db, env)

InitTasks ==
    /\ \E use_grpc \in BOOLEAN :
        /\ inst = [c \in Clients |->
                    IF c = TheClient THEN Constructed(c, use_grpc, PyNone).self
                    ELSE NoInstance]
        /\ ctor = [c \in Clients |->
                    IF c = TheClient
                    THEN [called |-> TRUE, use_grpc |-> use_grpc,
                          env |-> Answer("absent", "", Unset), raised |-> "",
                          reqs |-> Constructed(c, use_grpc, PyNone).reqs]
                    ELSE NoCtor]
    /\ heap = [d \in DictIds |-> EmptyDict]
    /\ calls = [c \in Clients |-> NoCall]
    /\ server = NoServer
    /\ tasks = [t \in Tasks |-> NoTask]
    /\ loop = Free

\* The loop can run a task that has not started.
CanStart(t) == loop = Free /\ tasks[t].pc = "none"

\* Task t runs op(args) up to the transport call.
Starts(t, op, args) ==
    LET dry == Run(op, args, inst[TheClient], Store(TheClient), NoEnv)
        sync == dry.reqs # <<>> /\ dry.reqs[1].via = "rpc"
    IN  /\ inst' = [inst EXCEPT ![TheClient] = dry.self]
        /\ tasks' = [tasks EXCEPT ![t] =
                        [pc |-> IF dry.reqs = <<>> THEN "done"
                                ELSE IF sync THEN "blocked" ELSE "waiting",
                         op |-> op, args |-> args, reqs |-> dry.reqs, env |-> NoEnv,
                         outcome |-> IF dry.reqs = <<>> THEN dry.outcome ELSE Pending]]
        /\ loop' = IF sync THEN t ELSE Free
        /\ UNCHANGED <<ctor, heap, calls, server>>

TaskSet(t) ==
    /\ CanStart(t)
    /\ \E value \in StoreValueArgs :
        Starts(t, "set", [db |-> "d1", key |-> PyStr(ServerKey), value |-> value])

TaskGet(t) ==
    /\ CanStart(t)
    /\ Starts(t, "get", [db |-> "d1", key |-> PyStr(ServerKey)])

TaskRenew(t) ==
    /\ CanStart(t)
    /\ Starts(t, "renew_api_key_for_db", [db |-> "d1"])

\* The response to task t's HTTP request arrives (or its wait times out).
ResponseArrives(t) ==
    /\ tasks[t].pc = "waiting"
    /\ \E a \in Answers(tasks[t].reqs) :
        /\ tasks' = [tasks EXCEPT ![t].pc = "answered", ![t].env = a.env]
        /\ server' = a.server
    /\ UNCHANGED <<inst, ctor, heap, calls, loop>>

\* The loop resumes task t after its await: the rest of the method runs.
TaskResumes(t) ==
    /\ loop = Free
    /\ tasks[t].pc = "answered"
    /\ LET r == Run(tasks[t].op, tasks[t].args, inst[TheClient], Store(TheClient),
                    tasks[t].env)
       IN  /\ heap' = [heap EXCEPT ![inst[TheClient]._apikeys] = r.apikeys]
           /\ tasks' = [tasks EXCEPT ![t].pc = "done", ![t].outcome = r.outcome]
    /\ UNCHANGED <<inst, ctor, calls, server, loop>>

\* The stub call of task t returns or raises, and the method runs to its end.
StubReturns(t) ==
    /\ loop = t
    /\ tasks[t].pc = "blocked"
    /\ \E a \in Answers(tasks[t].reqs) :
        LET r == Run(tasks[t].op, tasks[t].args, inst[TheClient], Store(TheClient),
                     a.env)
        IN  /\ tasks' = [tasks EXCEPT ![t].pc = "done", ![t].env = a.env,
                                      ![t].outcome = r.outcome]
            /\ server' = a.server
    /\ loop' = Free
    /\ UNCHANGED <<inst, ctor, heap, calls>>

NextTasks ==
    \E t \in Tasks :
        \/ TaskSet(t)
        \/ TaskGet(t)
        \/ TaskRenew(t)
        \/ ResponseArrives(t)
        \/ TaskResumes(t)
        \/ StubReturns(t)

SpecTasks == InitTasks /\ [][NextTasks]_vars

(***************************************************************************)
(* Claims.                                                                 *)
(***************************************************************************)
Called(c) == calls[c].op # "none"
Returned(c) == Called(c) /\ calls[c].outcome.kind = "return"
Raised(c) == Called(c) /\ calls[c].outcome.kind = "raise"

\* C1: when the construction-time probe gets no response, the constructor
\* is aborted: the caller holds no Hydrakv instance for that construction,
\* and no method call is ever made on one.
C1_ProbeFailureAborts ==
    \A c \in Clients :
        (ctor[c].called /\ ctor[c].env.net = "fail")
            => (~IsInstance(inst[c]) /\ ctor[c].raised # "" /\ ~Called(c))

\* The operations that have both an HTTP and an RPC path.
DualOps == {"set", "get", "setnx", "incr", "delete", "fifolifo_push",
            "fifolifo_delete", "fifo_pop", "lifo_pop"}

\* C2: the transport flag of a client stays what the constructor was given,
\* the stub is set exactly on RPC clients, and every request of a
\* dual-transport method goes through the stub on an RPC client and
\* through the HTTP client otherwise; no call finds the stub unset.
C2_TransportFixed ==
    \A c \in Clients :
        IsInstance(inst[c]) =>
            /\ inst[c]._use_grpc = ctor[c].use_grpc
            /\ (inst[c]._stub.kind = "stub") = ctor[c].use_grpc
            /\ (Called(c) /\ calls[c].op \in DualOps) =>
                /\ calls[c].outcome # Raise("AttributeError")
                /\ calls[c].outcome # Raise("ValidationError") => Len(calls[c].reqs) = 1
                /\ \A i \in 1..Len(calls[c].reqs) :
                      IF ctor[c].use_grpc
                      THEN /\ calls[c].reqs[i].via = "rpc"
                           /\ calls[c].reqs[i].stub.kind = "stub"
                      ELSE calls[c].reqs[i].via = "http"

C2_Witness ==
    \E c \in Clients :
        /\ IsInstance(inst[c]) /\ ctor[c].use_grpc
        /\ Called(c) /\ calls[c].op = "fifo_pop" /\ Returned(c)
        /\ Len(calls[c].reqs) = 1 /\ calls[c].reqs[1].via = "rpc"

\* The operations that take a credential, and the database each names.
CredentialOps == {"set", "get", "setnx", "incr", "delete", "delete_db"}
TargetDb(call) ==
    IF call.op = "delete_db"
    THEN (IF call.args.name = Omitted THEN "" ELSE call.args.name.val)
    ELSE call.args.db

\* The credential a request carries: the apikey field of the RPC message,
\* or of the HTTP body, and the X-API-Key header (absent for no credential).
BodyCredentialIs(req, token) ==
    CASE req.via = "rpc" -> req.msg.apikey = PyStr(token)
      [] HasKey(req.json, "apikey") -> req.json.apikey = PyStr(token)
      [] OTHER -> TRUE
HeaderCredentialIs(req, token) ==
    req.via = "http" => req.headers.XApiKey = (IF token = "" THEN Unset ELSE token)

\* C3: a credential-taking method sends the caller's api_key argument when
\* one was passed, else the credential dict's entry for the database, else
\* the empty token; get_api_key_for_db of a database without an entry
\* returns the empty string.
C3_CredentialResolution ==
    \A c \in Clients :
        (Called(c) /\ IsInstance(inst[c])) =>
            /\ calls[c].op \in CredentialOps =>
                LET db == TargetDb(calls[c])
                    expected == IF calls[c].args.api_key # PyNone
                                THEN calls[c].args.api_key.val
                                ELSE IF Store(c)[db] # Unset THEN Store(c)[db]
                                ELSE ""
                IN  \A i \in 1..Len(calls[c].reqs) :
                        /\ BodyCredentialIs(calls[c].reqs[i], expected)
                        /\ HeaderCredentialIs(calls[c].reqs[i], expected)
            /\ calls[c].op = "get_api_key_for_db" =>
                calls[c].outcome =
                    Return(PyStr(IF Store(c)[calls[c].args.db] = Unset THEN ""
                                 ELSE Store(c)[calls[c].args.db]))

C3_Witness ==
    \E c \in Clients :
        /\ Called(c) /\ calls[c].op = "set" /\ IsInstance(inst[c])
        /\ calls[c].args.api_key = PyStr("u2")
        /\ Store(c)[calls[c].args.db] = "u1"
        /\ Len(calls[c].reqs) = 1
        /\ BodyCredentialIs(calls[c].reqs[1], "u2")

\* The step is a call of op on client c.
IsCallOf(c, op) == calls[c] = NoCall /\ calls'[c] # NoCall /\ calls'[c].op = op

\* C4: a credential dict changes only when create_db gets a response that
\* carries a token (the created database's entry becomes that token) or
\* when renew_api_key_for_db succeeds (the database's entry becomes the
\* returned token); no step removes an entry; after create_db has returned
\* with a token in the response, the entry is that token.
C4_StoreFrame ==
    /\ [][\A d \in DictIds, k \in StoreKeys :
            /\ heap[d][k] # Unset => heap'[d][k] # Unset
            /\ heap'[d][k] # heap[d][k] =>
                \E c \in Clients :
                    /\ IsInstance(inst[c]) /\ inst[c]._apikeys = d
                    /\ \/ /\ IsCallOf(c, "create_db")
                          /\ calls'[c].args.name = PyStr(k)
                                \/ (calls'[c].args.name = Omitted /\ k = "")
                          /\ calls'[c].env.tok # Unset
                          /\ heap'[d][k] = calls'[c].env.tok
                       \/ /\ IsCallOf(c, "renew_api_key_for_db")
                          /\ calls'[c].args.db = k
                          /\ calls'[c].outcome = Return(PyStr(heap'[d][k]))]_vars
    /\ [](\A c \in Clients :
            (Called(c) /\ calls[c].op = "create_db" /\ Returned(c)
                /\ calls[c].env.tok # Unset)
                => Store(c)[IF calls[c].args.name = Omitted THEN ""
                            ELSE calls[c].args.name.val] = calls[c].env.tok)

C4_Witness ==
    \E c \in Clients :
        /\ Called(c) /\ calls[c].op = "create_db" /\ Returned(c)
        /\ calls[c].args.name = PyStr("d1")
        /\ calls[c].env.tok \in ServerTokens
        /\ Store(c)["d1"] = calls[c].env.tok

\* What makes a renewal fail: no response, the 503 answer, no token in the
\* response.
RenewalFails(env) == env.net = "fail" \/ env.app # "done" \/ env.tok = Unset

\* C5: a failed renew_api_key_for_db returns "" and leaves every credential
\* dict as it was; a successful one returns the token the server sent, and
\* that token is the database's entry afterwards.
C5_RenewalOutcome ==
    [][\A c \in Clients :
        IsCallOf(c, "renew_api_key_for_db") =>
            IF RenewalFails(calls'[c].env)
            THEN /\ calls'[c].outcome = Return(PyStr(""))
                 /\ heap' = heap
            ELSE /\ calls'[c].outcome = Return(PyStr(calls'[c].env.tok))
                 /\ heap'[inst[c]._apikeys][calls'[c].args.db] = calls'[c].env.tok]_vars

C5_Witness ==
    \E c \in Clients :
        /\ Called(c) /\ calls[c].op = "renew_api_key_for_db"
        /\ calls[c].env.app = "denied"
        /\ calls[c].args.db = "d1"
        /\ calls[c].outcome = Return(PyStr(""))
        /\ Store(c)["d1"] = "u1"

RaisingOps == {"set", "get", "setnx", "incr", "delete", "delete_db", "create_db",
               "fifolifo_create", "fifolifo_push", "fifolifo_delete", "fifo_pop",
               "lifo_pop"}

Missing(v) == v \in {PyNone, Omitted}
MissingRequired(call) ==
    CASE call.op \in {"set", "setnx"} ->
            Missing(call.args.key) \/ Missing(call.args.value)
      [] call.op \in {"get", "delete", "incr"} -> Missing(call.args.key)
      [] call.op = "fifolifo_push" ->
            Missing(call.args.name) \/ Missing(call.args.value)
      [] call.op \in {"fifolifo_create", "fifolifo_delete", "fifo_pop", "lifo_pop",
                      "create_db"} -> Missing(call.args.name)
      [] OTHER -> FALSE

\* C7: a call with a required field missing raises a validation failure
\* and puts no request on the wire.
C7_ValidationBeforeIO ==
    \A c \in Clients :
        (Called(c) /\ MissingRequired(calls[c]))
            => (calls[c].outcome = Raise("ValidationError") /\ calls[c].reqs = <<>>)

\* C8 as stated: fifolifo_create with limit <= 0 raises a validation
\* failure and sends no request.
C8_PositiveLimit ==
    \A c \in Clients :
        (Called(c) /\ calls[c].op = "fifolifo_create"
            /\ calls[c].args.limit.kind = "int" /\ calls[c].args.limit.val <= 0)
            => (calls[c].outcome = Raise("ValidationError") /\ calls[c].reqs = <<>>)

\* C8 as amended: fifolifo_create with limit None raises a validation
\* failure and sends no request; with a name and any int limit, limit <= 0
\* included, it sends one request whose body carries that limit.
C8_IntLimit ==
    \A c \in Clients :
        (Called(c) /\ calls[c].op = "fifolifo_create") =>
            /\ calls[c].args.limit = PyNone =>
                (calls[c].outcome = Raise("ValidationError") /\ calls[c].reqs = <<>>)
            /\ (calls[c].args.limit.kind = "int" /\ IsStr(calls[c].args.name)) =>
                /\ Len(calls[c].reqs) = 1
                /\ calls[c].reqs[1].json.limit = calls[c].args.limit

C8_Witness ==
    \E c \in Clients :
        /\ Called(c) /\ calls[c].op = "fifolifo_create"
        /\ calls[c].args.limit = PyInt(0 - 1)
        /\ Returned(c)
        /\ Len(calls[c].reqs) = 1
        /\ calls[c].reqs[1].json.limit.val < 0

HttpOnlyOps == {"fifolifo_create", "renew_api_key_for_db", "create_db", "delete_db"}

SameOutcome(a, b) ==
    /\ a.kind = b.kind
    /\ a.kind = "return" =>
        IF a.val.kind \in {"int", "bool"} /\ b.val.kind \in {"int", "bool"}
        THEN PyNum(a.val) = PyNum(b.val)
        ELSE a.val.kind = b.val.kind /\ a.val = b.val

\* C10: an HTTP client and an RPC client that make the same call against
\* the same server answer end with equal results.
C10_TransportParity ==
    (Called(HttpSide) /\ Called(RpcSide)
        /\ ~inst[HttpSide]._use_grpc /\ inst[RpcSide]._use_grpc
        /\ calls[HttpSide].op = calls[RpcSide].op
        /\ calls[HttpSide].args = calls[RpcSide].args)
        => SameOutcome(calls[HttpSide].outcome, calls[RpcSide].outcome)

\* The step is a call of op on client c that the server answered.
IsAnswered(c, op) == IsCallOf(c, op) /\ calls'[c].env.net = "ok"

\* C11: on either transport, a set the server answered leaves the value of
\* the call under its db and key; a get returns exactly the value the key
\* holds, which is the value of the last such set; a delete leaves the key
\* without a value, and a get of a key without a value returns "".
C11_SetGetRoundTrip ==
    [][\A c \in Clients :
        /\ IsAnswered(c, "set") =>
            /\ calls'[c].outcome.kind = "return"
            /\ server'.kv[calls'[c].args.db] = calls'[c].args.value.val
        /\ IsAnswered(c, "delete") =>
            /\ calls'[c].outcome.kind = "return"
            /\ server'.kv[calls'[c].args.db] = Unset
        /\ IsAnswered(c, "get") =>
            /\ server' = server
            /\ calls'[c].outcome =
                Return(PyStr(IF server.kv[calls'[c].args.db] = Unset THEN ""
                             ELSE server.kv[calls'[c].args.db]))]_vars

C11_Witness ==
    /\ Called(RpcSide) /\ calls[RpcSide].op = "get"
    /\ calls[RpcSide].args.db = "d2"
    /\ calls[RpcSide].outcome = Return(PyStr("v2"))
    /\ server.kv["d2"] = "v2" /\ server.kv["d1"] = "v1"

\* C12: a setnx the server answered returns 1 when the key did not exist
\* (the server set it) and 0 when the key already existed.
C12_SetnxOutcome ==
    \A c \in Clients :
        (Called(c) /\ calls[c].op = "setnx" /\ calls[c].env.net = "ok") =>
            /\ Returned(c)
            /\ PyEq(calls[c].outcome.val,
                    PyInt(IF calls[c].env.app = "done" THEN 1 ELSE 0))

\* C13: an incr the server performed returns the number the key now holds.
C13_IncrReturnsNewValue ==
    \A c \in Clients :
        (Called(c) /\ calls[c].op = "incr" /\ calls[c].env.net = "ok"
            /\ calls[c].env.app = "done") =>
            /\ Returned(c)
            /\ PyEq(calls[c].outcome.val,
                    PyInt(StrNat(server.kv[calls[c].args.db])))

AbsentOps == {"get", "fifo_pop", "lifo_pop"}

C15_InstancesIndependent ==
    [][\A c \in Clients :
        (calls[c] = NoCall /\ calls'[c] # NoCall) =>
            /\ \A o \in Clients \ {c} :
                /\ inst'[o] = inst[o]
                /\ IsInstance(inst[o]) => heap'[inst[o]._apikeys] = heap[inst[o]._apikeys]
            /\ heap'["caller"] = heap["caller"]]_vars

InFlight(t) == tasks[t].pc \in {"waiting", "blocked"}

\* C16: while a task's operation waits for its response, the loop can
\* start another task's operation on the same client.
C16_NoBlockingWait ==
    \A t \in Tasks, u \in Tasks :
        (t # u /\ InFlight(t) /\ tasks[u].pc = "none") => CanStart(u)

Renewed(t) ==
    /\ tasks[t].pc = "done" /\ tasks[t].op = "renew_api_key_for_db"
    /\ tasks[t].env.tok # Unset

\* C17: once all tasks have completed and some renewal got a token, the
\* entry of the database is the token the server issued last.
C17_LastIssuedWins ==
    ((\A t \in Tasks : tasks[t].pc = "done") /\ (\E t \in Tasks : Renewed(t)))
        => Store(TheClient)["d1"] = TokenName(server.issued)

HeaderOps == CredentialOps \cup {"renew_api_key_for_db"}

\* C18: an HTTP request of set, get, setnx, incr, delete, delete_db or
\* renew_api_key_for_db carries the X-API-Key header exactly when the token
\* resolved for its database (the api_key argument, else the credential
\* dict's entry before the call) is not empty.
C18_HeaderIffToken ==
    [][\A c \in Clients :
        (calls[c] = NoCall /\ calls'[c] # NoCall /\ calls'[c].op \in HeaderOps
            /\ IsInstance(inst[c])) =>
            LET call == calls'[c]
                stored == heap[inst[c]._apikeys][TargetDb(call)]
                token == IF call.op \in CredentialOps /\ call.args.api_key # PyNone
                         THEN call.args.api_key.val
                         ELSE IF stored # Unset THEN stored ELSE ""
            IN  \A i \in 1..Len(call.reqs) :
                    call.reqs[i].via = "http" =>
                        (call.reqs[i].headers.XApiKey # Unset <=> token # "")]_vars

====
